---------------------------- MODULE Spec2Model ----------------------------
(***************************************************************************)
(* Reference explorer: the reference graph of UEdGraph_RefExplorer and the *)
(* SRefExplorer widget that drives it, over the asset registry (the        *)
(* external dependency index).                                             *)
(*                                                                         *)
(* Source: Plugins/RefExplorer/Source/RefExplorer/Private/                 *)
(*         RefExplorerEditorModule.cpp and RefExplorerEditorModule_private.h*)
(***************************************************************************)
EXTENDS Integers, Sequences, FiniteSets, TLC

VARIABLES
    registry,                    \* content of the asset registry (external index)
    bIsLoadingAssets,            \* IAssetRegistry::IsLoadingAssets()
    CurrentGraphRootIdentifier,  \* UEdGraph_RefExplorer::CurrentGraphRootIdentifier
    RefExplorerNodeInfos,        \* UEdGraph_RefExplorer::RefExplorerNodeInfos (TMap)
    Nodes,                       \* UEdGraph::Nodes, the visual nodes in creation order
    bDirtyResults,               \* SRefExplorer::bDirtyResults
    AssetRefreshHandle,          \* SRefExplorer::AssetRefreshHandle.IsValid()
    FilesLoadedBindings,         \* entries of OnFilesLoaded() bound to the widget
    status,                      \* "Running", or the way the editor stopped running
    scans,                       \* number of scans the registry has started
    history,                     \* observation of the last handler that ran
    links,                       \* GetSortedLinks at work on records handed to it
    pins                         \* pin categories and their names on the way there and back

vars == << registry, bIsLoadingAssets, CurrentGraphRootIdentifier,
           RefExplorerNodeInfos, Nodes, bDirtyResults, AssetRefreshHandle,
           FilesLoadedBindings, status, scans, history, links, pins >>

---------------------------------------------------------------------------
(* Bounds *)

MaxDeps == 3         \* dependency records stored in a registry of SpecGraph
MaxWidgetDeps == 1   \* dependency records stored in a registry of Spec
MaxScans == 2        \* scans the registry starts during one run
MaxLinks == 3        \* records handed to the sort and the classification loop of SpecLinks
MaxPins == 2         \* pin categories or names converted together in SpecPins

---------------------------------------------------------------------------
(* FAssetIdentifier *)

NAME_None == "None"

\* the package names known to the registry, in lexical order
PackageNames == << "/Game/A", "/Game/B", "/Game/C" >>

Packages == { PackageNames[i] : i \in 1..Len(PackageNames) }

\* FAssetIdentifier(PackageName): the identifier of a package
PackageId(p) == [PackageName |-> p, ValueName |-> NAME_None]

\* FAssetIdentifier(): the default-constructed identifier
DefaultId == [PackageName |-> NAME_None, ValueName |-> NAME_None]

\* an identifier without a package name (a primary asset id or a searchable value)
ValueId == [PackageName |-> NAME_None, ValueName |-> "PrimaryAsset"]

PackageIds == { PackageId(p) : p \in Packages }

AssetIds == PackageIds \cup {DefaultId, ValueId}

\* FName::LexicalLess: package names start with '/', which sorts before "None"
LexicalRank(Name) ==
    IF Name = NAME_None THEN Len(PackageNames) + 1
    ELSE CHOOSE i \in 1..Len(PackageNames) : PackageNames[i] = Name

LexicalLess(A, B) == LexicalRank(A) < LexicalRank(B)

---------------------------------------------------------------------------
(* EDependencyPinCategory: a bit set held in an int *)

LinkEndPassive == 0
LinkEndActive == 1
LinkEndMask == 1
LinkTypeNone == 0
LinkTypeUsedInGame == 2
LinkTypeHard == 4
LinkTypeMask == 6

Bit(Value, Flag) == (Value \div Flag) % 2

\* operator| of ENUM_CLASS_FLAGS on the three bits in use
BitOr(A, B) ==
    LET Or(Flag) == IF Bit(A, Flag) = 1 \/ Bit(B, Flag) = 1 THEN Flag ELSE 0
    IN  Or(1) + Or(2) + Or(4)

\* operator& of ENUM_CLASS_FLAGS on the three bits in use
BitAnd(A, B) ==
    LET And(Flag) == IF Bit(A, Flag) = 1 /\ Bit(B, Flag) = 1 THEN Flag ELSE 0
    IN  And(1) + And(2) + And(4)

\* the five names of DependencyPinCategory
PinCategoryNames == {"Passive", "Hard", "HardEditorOnly", "Soft", "SoftEditorOnly"}

ParseDependencyPinCategory(PinCategory) ==
    CASE PinCategory = "Hard" -> BitOr(LinkEndActive, BitOr(LinkTypeHard, LinkTypeUsedInGame))
      [] PinCategory = "HardEditorOnly" -> BitOr(LinkEndActive, LinkTypeHard)
      [] PinCategory = "Soft" -> BitOr(LinkEndActive, LinkTypeUsedInGame)
      [] PinCategory = "SoftEditorOnly" -> LinkEndActive
      [] OTHER -> LinkEndPassive

\* variant: the link end is not looked at
GetNameOfLinkType(Category) ==
    CASE BitAnd(Category, LinkTypeMask) = LinkTypeHard + LinkTypeUsedInGame -> "Hard"
      [] BitAnd(Category, LinkTypeMask) = LinkTypeHard -> "HardEditorOnly"
      [] BitAnd(Category, LinkTypeMask) = LinkTypeUsedInGame -> "Soft"
      [] OTHER -> "SoftEditorOnly"

GetName(Category) ==
    IF BitAnd(Category, LinkEndMask) = LinkEndPassive
    THEN "Passive"
    ELSE CASE BitAnd(Category, LinkTypeMask) = LinkTypeHard + LinkTypeUsedInGame -> "Hard"
           [] BitAnd(Category, LinkTypeMask) = LinkTypeHard -> "HardEditorOnly"
           [] BitAnd(Category, LinkTypeMask) = LinkTypeUsedInGame -> "Soft"
           [] OTHER -> "SoftEditorOnly"

---------------------------------------------------------------------------
(* The asset registry.  Its content is a set of dependency records         *)
(* (Referencer depends on Referenced), the package data of every package   *)
(* and the packages whose asset is a redirector.                           *)

\* variant: the query asks for the searchable names as well
DependencyCategoriesAll == {"Package", "Manage", "SearchableName"}

\* EDependencyCategory Categories = Package | Manage
DependencyCategories == {"Package", "Manage"}

\* the records a registry may hold: any package depends on any package, itself
\* included, through a hard reference; a package depends on the first package
\* through a soft reference as well (a second record for the same pair); the
\* primary asset manages any package; the last package refers to the searchable
\* value by its name
DependencyRecords ==
    { [Referencer |-> PackageId(PackageNames[3]), Referenced |-> ValueId,
       Category |-> "SearchableName", Properties |-> {}] }
    \cup
    { [Referencer |-> a, Referenced |-> b, Category |-> "Package", Properties |-> {"Hard"}] :
        a \in PackageIds, b \in PackageIds }
    \cup
    { [Referencer |-> a, Referenced |-> PackageId(PackageNames[1]), Category |-> "Package",
       Properties |-> {}] :
        a \in PackageIds \ {PackageId(PackageNames[1])} }
    \cup
    { [Referencer |-> ValueId, Referenced |-> b, Category |-> "Manage", Properties |-> {"Direct"}] :
        b \in PackageIds }

RECURSIVE SubsetsUpTo(_, _)
SubsetsUpTo(S, n) ==
    IF n = 0 THEN {{}}
    ELSE LET Smaller == SubsetsUpTo(S, n - 1)
         IN  Smaller \cup { T \cup {x} : T \in Smaller, x \in S }

\* GetAssetPackageDataCopy: "Valid" (package data with DiskSize >= 0),
\* "Unset" (no package data) or "Negative" (package data with DiskSize < 0).
\* The second package is the one whose bad data has a negative size, the
\* others have no data when they are bad.
PackageStates(p) ==
    IF p = PackageNames[2] THEN {"Valid", "Negative"} ELSE {"Valid", "Unset"}

\* the redirector flag of a package is only read when its package data is bad
PackageContents ==
    UNION { { [PackageData |-> pd, Redirectors |-> r] :
                r \in SUBSET { p \in Packages : pd[p] # "Valid" } } :
            pd \in { f \in [Packages -> {"Valid", "Unset", "Negative"}] :
                        \A p \in Packages : f[p] \in PackageStates(p) } }

Registries(MaxRecords) ==
    { [Dependencies |-> d, PackageData |-> c.PackageData, Redirectors |-> c.Redirectors] :
        d \in SubsetsUpTo(DependencyRecords, MaxRecords), c \in PackageContents }

RECURSIVE SetToSeq(_)
SetToSeq(S) ==
    IF S = {} THEN << >>
    ELSE LET x == CHOOSE y \in S : TRUE
         IN  << x >> \o SetToSeq(S \ {x})

\* IAssetRegistry::GetReferencers(AssetId, TArray<FAssetDependency>&, Package | Manage, NoRequirements)
GetReferencers(Reg, AssetId) ==
    LET Found == SetToSeq({ d \in Reg.Dependencies :
                     d.Referenced = AssetId /\ d.Category \in DependencyCategories })
        Link(d) == [AssetId |-> d.Referencer, Category |-> d.Category, Properties |-> d.Properties]
    IN  [ i \in 1..Len(Found) |-> Link(Found[i]) ]

RECURSIVE Distinct(_)
Distinct(Items) ==
    IF Items = << >> THEN << >>
    ELSE LET Front == Distinct(SubSeq(Items, 1, Len(Items) - 1))
             Last == Items[Len(Items)]
         IN  IF \E i \in 1..Len(Front) : Front[i] = Last THEN Front ELSE Append(Front, Last)

\* IAssetRegistry::GetReferencers(PackageName, TArray<FAssetIdentifier>&, Package | Manage, NoRequirements)
GetReferencerIds(Reg, PackageName) ==
    LET Links == GetReferencers(Reg, PackageId(PackageName))
    IN  Distinct([ i \in 1..Len(Links) |-> Links[i].AssetId ])

\* variant: the size of the package on disk is not looked at
IsBadPackageIgnoresSize(Reg, PackageName) == Reg.PackageData[PackageName] = "Unset"

\* !GetAssetPackageDataCopy(PackageName).GetPtrOrNull() || DiskSize < 0
IsBadPackage(Reg, PackageName) == Reg.PackageData[PackageName] # "Valid"

\* GetAssetsByPackageName(PackageName, Assets, true) holds an asset with IsRedirector()
HasRedirector(Reg, PackageName) == PackageName \in Reg.Redirectors

---------------------------------------------------------------------------
(* UEdGraph_RefExplorer::GetSortedLinks *)

\* the categories CategoryOrder has a case for
KnownCategories == {"Package", "Manage", "SearchableName"}

\* the lambda CategoryOrder; the default case runs check(false) first
CategoryOrder(InCategory) ==
    CASE InCategory = "Package" -> 0
      [] InCategory = "Manage" -> 1
      [] InCategory = "SearchableName" -> 2
      [] OTHER -> 3

IsHard(Properties) == "Hard" \in Properties \/ "Direct" \in Properties

\* the predicate handed to Algo::Sort reaches check(false): CategoryOrder is
\* called, on both records, only when their categories differ
PredicateFailsCheck(A, B) ==
    /\ A.Category # B.Category
    /\ (A.Category \notin KnownCategories \/ B.Category \notin KnownCategories)

\* variant: hardness is compared before the category
SortPredicateHardnessFirst(A, B) ==
    IF A.Properties # B.Properties /\ IsHard(A.Properties) # IsHard(B.Properties)
    THEN IsHard(A.Properties)
    ELSE IF A.Category # B.Category
         THEN CategoryOrder(A.Category) < CategoryOrder(B.Category)
         ELSE LexicalLess(A.AssetId.PackageName, B.AssetId.PackageName)

\* the predicate handed to Algo::Sort
SortPredicate(A, B) ==
    IF A.Category # B.Category
    THEN CategoryOrder(A.Category) < CategoryOrder(B.Category)
    ELSE IF A.Properties # B.Properties /\ IsHard(A.Properties) # IsHard(B.Properties)
         THEN IsHard(A.Properties)
         ELSE LexicalLess(A.AssetId.PackageName, B.AssetId.PackageName)

\* Algo::Sort: the records ordered by SortPredicate.  Records the predicate
\* does not order name the same identifier here, so their relative order
\* does not change what the loop below computes.
RECURSIVE SortLinks(_)
SortLinks(Links) ==
    IF Links = << >> THEN << >>
    ELSE LET Sorted == SortLinks(SubSeq(Links, 1, Len(Links) - 1))
             Last == Links[Len(Links)]
             Before == { i \in 1..Len(Sorted) : ~SortPredicate(Last, Sorted[i]) }
             n == Cardinality(Before)
         IN  SubSeq(Sorted, 1, n) \o << Last >> \o SubSeq(Sorted, n + 1, Len(Sorted))

\* Algo::Sort stops in check(false).  A sort compares, directly or through a
\* chain of compared pairs, every record with every other, so some compared
\* pair has a record of an unknown category and a record of another category
\* exactly when the array holds such a pair.
SortFailsCheck(Links) ==
    \E i, j \in 1..Len(Links) : PredicateFailsCheck(Links[i], Links[j])

\* variant: the category of the last record of a target replaces the bits merged so far
AddLinkOverwriting(OutLinks, LinkToAsset) ==
    LET bIsHard == IsHard(LinkToAsset.Properties)
        bIsUsedInGame == LinkToAsset.Category # "Package" \/ "Game" \in LinkToAsset.Properties
        Bits == BitOr(LinkEndActive,
                  BitOr(IF bIsHard THEN LinkTypeHard ELSE LinkTypeNone,
                        IF bIsUsedInGame THEN LinkTypeUsedInGame ELSE LinkTypeNone))
        Known == { i \in 1..Len(OutLinks) : OutLinks[i].Key = LinkToAsset.AssetId }
    IN  IF Known = {}
        THEN Append(OutLinks, [Key |-> LinkToAsset.AssetId, Value |-> BitOr(LinkEndActive, Bits)])
        ELSE [ i \in 1..Len(OutLinks) |->
                 IF i \in Known
                 THEN [Key |-> OutLinks[i].Key, Value |-> Bits]
                 ELSE OutLinks[i] ]

\* one round of the loop over the sorted records: OutLinks.FindOrAdd and the three |=
AddLink(OutLinks, LinkToAsset) ==
    LET bIsHard == IsHard(LinkToAsset.Properties)
        bIsUsedInGame == LinkToAsset.Category # "Package" \/ "Game" \in LinkToAsset.Properties
        Bits == BitOr(LinkEndActive,
                  BitOr(IF bIsHard THEN LinkTypeHard ELSE LinkTypeNone,
                        IF bIsUsedInGame THEN LinkTypeUsedInGame ELSE LinkTypeNone))
        Known == { i \in 1..Len(OutLinks) : OutLinks[i].Key = LinkToAsset.AssetId }
    IN  IF Known = {}
        THEN Append(OutLinks, [Key |-> LinkToAsset.AssetId, Value |-> BitOr(LinkEndActive, Bits)])
        ELSE [ i \in 1..Len(OutLinks) |->
                 IF i \in Known
                 THEN [Key |-> OutLinks[i].Key, Value |-> BitOr(OutLinks[i].Value, Bits)]
                 ELSE OutLinks[i] ]

RECURSIVE ClassifyLinks(_)
ClassifyLinks(Sorted) ==
    IF Sorted = << >> THEN << >>
    ELSE AddLink(ClassifyLinks(SubSeq(Sorted, 1, Len(Sorted) - 1)), Sorted[Len(Sorted)])

\* the loop over ReferenceIds, run round by round; Index counts from 1 here.
\* A run still going when Fuel is spent has come back to a redirector it
\* already replaced, and so never leaves the loop.  Queried lists the
\* packages the loop has asked the registry the referencers of, in the order
\* of the calls.
RECURSIVE FilterReferenceIds(_, _, _, _)
FilterReferenceIds(Reg, ReferenceIds, Index, Fuel) ==
    IF Index > Len(ReferenceIds)
    THEN [Terminates |-> TRUE, ReferenceIds |-> ReferenceIds, Queried |-> << >>]
    ELSE IF Fuel = 0
    THEN [Terminates |-> FALSE, ReferenceIds |-> ReferenceIds, Queried |-> << >>]
    ELSE LET PackageName == ReferenceIds[Index].PackageName
             Removed == SubSeq(ReferenceIds, 1, Index - 1)
                        \o SubSeq(ReferenceIds, Index + 1, Len(ReferenceIds))
             FoundReferences == GetReferencerIds(Reg, PackageName)
             Replaced == SubSeq(ReferenceIds, 1, Index - 1) \o FoundReferences
                         \o SubSeq(ReferenceIds, Index + 1, Len(ReferenceIds))
         IN  IF PackageName # NAME_None /\ IsBadPackage(Reg, PackageName)
             THEN IF HasRedirector(Reg, PackageName)
                  THEN [FilterReferenceIds(Reg, Replaced, Index, Fuel - 1)
                            EXCEPT !.Queried = << PackageName >> \o @]
                  ELSE FilterReferenceIds(Reg, Removed, Index, Fuel - 1)
             ELSE FilterReferenceIds(Reg, ReferenceIds, Index + 1, Fuel - 1)

\* rounds that the loop needs at most when it ends: one per path of
\* dependency records, and a registry of n records has fewer than 2^(n+1)
FilterFuel(Reg) == 2 ^ (Cardinality(Reg.Dependencies) + 1)

\* variant: the entries that stay come out in the reverse order
RemoveUnlistedReversed(OutLinks, ReferenceIds) ==
    LET Kept == SelectSeq(OutLinks,
                    LAMBDA Pair : \E i \in 1..Len(ReferenceIds) : ReferenceIds[i] = Pair.Key)
    IN  [ i \in 1..Len(Kept) |-> Kept[Len(Kept) + 1 - i] ]

\* the closing loop: It.RemoveCurrent() for the keys that are not in ReferenceIds
RemoveUnlisted(OutLinks, ReferenceIds) ==
    SelectSeq(OutLinks, LAMBDA Pair : \E i \in 1..Len(ReferenceIds) : ReferenceIds[i] = Pair.Key)

GetSortedLinks(Reg, GraphRootIdentifier) ==
    LET LinksToAsset == SortLinks(GetReferencers(Reg, GraphRootIdentifier))
        OutLinks == ClassifyLinks(LinksToAsset)
        ReferenceIds == [ i \in 1..Len(OutLinks) |-> OutLinks[i].Key ]
        Filtered == FilterReferenceIds(Reg, ReferenceIds, 1, FilterFuel(Reg))
    IN  [Terminates |-> Filtered.Terminates,
         Queried |-> Filtered.Queried,
         OutLinks |-> IF Filtered.Terminates
                      THEN RemoveUnlisted(OutLinks, Filtered.ReferenceIds)
                      ELSE OutLinks]

---------------------------------------------------------------------------
(* UEdGraph_RefExplorer::RebuildGraph *)

\* UE::AssetRegistry::GetAssetForPackages(...).FindRef(PackageName)
AssetDataOf(Reg, AssetId) ==
    IF AssetId.PackageName \in Packages
       /\ (~IsBadPackage(Reg, AssetId.PackageName) \/ HasRedirector(Reg, AssetId.PackageName))
    THEN "Valid" ELSE "Invalid"

\* FRefExplorerNodeInfo(InAssetId)
FRefExplorerNodeInfo(InAssetId) ==
    [AssetId |-> InAssetId, AssetData |-> "Invalid", Children |-> << >>, Parents |-> {}]

\* TMap::FindOrAdd(Key, Value)
FindOrAdd(Infos, Key, Value) ==
    IF Key \in DOMAIN Infos THEN Infos
    ELSE [ k \in DOMAIN Infos \cup {Key} |-> IF k = Key THEN Value ELSE Infos[k] ]

\* variant: the pair is emplaced twice
LinkChildTwice(Infos, Root, Pair) ==
    LET WithParent == [Infos EXCEPT ![Pair.Key].Parents = @ \cup {Root}]
    IN  [WithParent EXCEPT ![Root].Children = Append(Append(@, Pair), Pair)]

\* Parents.FindOrAdd(Root) on the child, Children.Emplace(Pair) on the root
LinkChild(Infos, Root, Pair) ==
    LET WithParent == [Infos EXCEPT ![Pair.Key].Parents = @ \cup {Root}]
    IN  [WithParent EXCEPT ![Root].Children = Append(@, Pair)]

\* the body of the loop over ReferenceLinks
AddReferenceLink(Infos, Root, Pair) ==
    LET ChildId == Pair.Key
    IN  IF ChildId \notin DOMAIN Infos
        THEN LinkChild(FindOrAdd(Infos, ChildId, FRefExplorerNodeInfo(ChildId)), Root, Pair)
        ELSE IF Root \notin Infos[ChildId].Parents
        THEN LinkChild(Infos, Root, Pair)
        ELSE Infos

RECURSIVE AddReferenceLinks(_, _, _)
AddReferenceLinks(Infos, Root, ReferenceLinks) ==
    IF ReferenceLinks = << >> THEN Infos
    ELSE AddReferenceLink(
             AddReferenceLinks(Infos, Root, SubSeq(ReferenceLinks, 1, Len(ReferenceLinks) - 1)),
             Root, ReferenceLinks[Len(ReferenceLinks)])

\* InfoPair.Value.AssetData = PackagesToAssetDataMap.FindRef(InfoPair.Key.PackageName)
SetAssetData(Reg, Infos) ==
    [ k \in DOMAIN Infos |-> [Infos[k] EXCEPT !.AssetData = AssetDataOf(Reg, k)] ]

\* CreateNode and SetupRefExplorerNode, which ends in AllocateDefaultPins
NewGraphNode(NodeLoc, NewIdentifier, InAssetData) ==
    [NodePosX |-> NodeLoc.X, NodePosY |-> NodeLoc.Y,
     Identifier |-> NewIdentifier, CachedAssetData |-> InAssetData,
     DependencyPinCategory |-> "Passive", DependencyPinHidden |-> TRUE,
     ReferencerPinHidden |-> TRUE, DependencyPinLinkedTo |-> 0]

\* variant: the child is linked to the node created before it
AddReferencerToPrevious(GraphNodes, NewNode, ChildNode, Category) ==
    [ i \in 1..Len(GraphNodes) |->
        LET Tagged == IF i = ChildNode
                      THEN [GraphNodes[i] EXCEPT !.DependencyPinCategory = GetName(Category),
                                                 !.DependencyPinHidden = FALSE,
                                                 !.DependencyPinLinkedTo = ChildNode - 1]
                      ELSE GraphNodes[i]
        IN  IF i = ChildNode - 1 THEN [Tagged EXCEPT !.ReferencerPinHidden = FALSE] ELSE Tagged ]

\* ChildNode's dependency pin gets the category name, then NewNode->AddReferencer(ChildNode)
AddReferencer(GraphNodes, NewNode, ChildNode, Category) ==
    [ i \in 1..Len(GraphNodes) |->
        LET Tagged == IF i = ChildNode
                      THEN [GraphNodes[i] EXCEPT !.DependencyPinCategory = GetName(Category),
                                                 !.DependencyPinHidden = FALSE,
                                                 !.DependencyPinLinkedTo = NewNode]
                      ELSE GraphNodes[i]
        IN  IF i = NewNode THEN [Tagged EXCEPT !.ReferencerPinHidden = FALSE] ELSE Tagged ]

\* the deepest chain of calls in which no identifier is expanded twice
MaxCallDepth(Infos) == Cardinality(DOMAIN Infos) + 1

\* const int32 WidthStep and HeightStep
WidthStep == 256
HeightStep == 400

\* angles are counted in steps of pi/24, of which UE_PI has 24: the angles of
\* up to four children are whole steps
UE_PI == 24

\* the sine of 0, pi/24, ..., pi/2 in ten-thousandths
SinTable == << 0, 1305, 2588, 3827, 5000, 6088, 7071, 7934, 8660, 9239, 9659, 9914, 10000 >>

\* FMath::Sin and FMath::Cos of an angle in steps, in ten-thousandths
Sin(Angle) ==
    LET Turned == Angle % (2 * UE_PI)
        Half(a) == IF a <= UE_PI \div 2 THEN SinTable[a + 1] ELSE SinTable[UE_PI - a + 1]
    IN  IF Turned <= UE_PI THEN Half(Turned) ELSE -Half(Turned - UE_PI)

Cos(Angle) == Sin(Angle + UE_PI \div 2)

Abs(x) == IF x < 0 THEN -x ELSE x

Max(x, y) == IF x >= y THEN x ELSE y

Min(x, y) == IF x <= y THEN x ELSE y

\* DeltaAngle for Num children, in steps
DeltaAngle(Num) == UE_PI \div Num

\* LastAngle for Num children, in steps
LastAngle(Num) == DeltaAngle(Num) * (IF Num = 1 THEN 0 ELSE Num - 1)

\* Radius for Num children, in hundredths
Radius(Num) ==
    (HeightStep * 1000000)
        \div Max(Abs(10000 - Cos(DeltaAngle(Num))), Abs(Sin(DeltaAngle(Num))))

\* the int32 that the float InY - Offset becomes, Offset in millionths: the
\* conversion drops the fraction.  The table has four digits, so the result
\* can be one off where the float is within a ten-thousandth of a whole number.
TruncToInt(InY, Offset) ==
    LET Whole == IF Offset >= 0 THEN Offset \div 1000000 ELSE -((-Offset) \div 1000000)
        Rest == Offset - Whole * 1000000
        Near == InY - Whole
    IN  IF Rest > 0 /\ Near >= 1 THEN Near - 1
        ELSE IF Rest < 0 /\ Near < 0 THEN Near + 1
        ELSE Near

\* ChildLoc of the child ChildIdx (counted from 1 here) of Num children
ChildLoc(InNodeLoc, ChildIdx, Num) ==
    LET AccumAngle == (ChildIdx - 1) * DeltaAngle(Num)
    IN  [X |-> InNodeLoc.X - (Min(ChildIdx - 1, Num - (ChildIdx - 1) - 1) + 1) * WidthStep,
         Y |-> TruncToInt(InNodeLoc.Y,
                   Radius(Num) * Sin(AccumAngle + (UE_PI - LastAngle(Num) \div 2)))]

\* CurrentGraphRootOrigin: every call of SetGraphRoot leaves the default
\* argument FIntPoint(ForceInitToZero)
CurrentGraphRootOrigin == [X |-> 0, Y |-> 0]

\* RecursivelyCreateNodes: the nodes of the graph after the call, the node it
\* returns, and whether the chain of calls grew past MaxCallDepth, in which
\* case an identifier is inside its own expansion and the recursion has no end.
RECURSIVE RecursivelyCreateNodes(_, _, _, _, _, _, _)
RECURSIVE CreateChildNodes(_, _, _, _, _, _, _)
RecursivelyCreateNodes(Infos, InAssetId, InNodeLoc, InParentNode, GraphNodes, bIsRoot, Depth) ==
    IF Depth > MaxCallDepth(Infos)
    THEN [Nodes |-> GraphNodes, NewNode |-> 0, bOverflow |-> TRUE]
    ELSE LET Created == IF bIsRoot THEN GraphNodes
                        ELSE Append(GraphNodes,
                                 NewGraphNode(InNodeLoc, InAssetId, Infos[InAssetId].AssetData))
             NewNode == IF bIsRoot THEN InParentNode ELSE Len(Created)
         IN  CreateChildNodes(Infos, InAssetId, InNodeLoc, NewNode, 1, Created, Depth)

CreateChildNodes(Infos, InAssetId, InNodeLoc, NewNode, ChildIdx, GraphNodes, Depth) ==
    IF ChildIdx > Len(Infos[InAssetId].Children)
    THEN [Nodes |-> GraphNodes, NewNode |-> NewNode, bOverflow |-> FALSE]
    ELSE LET Pair == Infos[InAssetId].Children[ChildIdx]
             Child == RecursivelyCreateNodes(Infos, Pair.Key,
                          ChildLoc(InNodeLoc, ChildIdx, Len(Infos[InAssetId].Children)),
                          NewNode, GraphNodes, FALSE, Depth + 1)
         IN  IF Child.bOverflow THEN Child
             ELSE CreateChildNodes(Infos, InAssetId, InNodeLoc, NewNode, ChildIdx + 1,
                      AddReferencer(Child.Nodes, NewNode, Child.NewNode, Pair.Value), Depth)

\* variant: the nodes stay in the graph
RemoveAllNodesKeepsNodes(GraphNodes) == GraphNodes

\* UEdGraph_RefExplorer::RemoveAllNodes
RemoveAllNodes(GraphNodes) == SubSeq(GraphNodes, 1, 0)

\* variant: the table keeps its entries
ResetKeepsEntries(Infos) == Infos

\* RefExplorerNodeInfos.Reset()
Reset(Infos) == [ k \in {} |-> Infos[k] ]

\* UEdGraph_RefExplorer::RebuildGraph for the root Root, run on the table
\* Infos and the nodes GraphNodes: the table and the nodes it leaves, and how
\* it ended
RebuildGraph(Reg, Root, Infos, GraphNodes) ==
    LET Removed == RemoveAllNodes(GraphNodes)
        WithRoot == FindOrAdd(Reset(Infos), Root, FRefExplorerNodeInfo(Root))
        ReferenceLinks == GetSortedLinks(Reg, Root)
        Linked == SetAssetData(Reg, AddReferenceLinks(WithRoot, Root, ReferenceLinks.OutLinks))
        RootNode == Append(Removed,
                        NewGraphNode(CurrentGraphRootOrigin, Root, Linked[Root].AssetData))
        Created == RecursivelyCreateNodes(Linked, Root, CurrentGraphRootOrigin, Len(RootNode),
                       RootNode, TRUE, 1)
    IN  IF ~ReferenceLinks.Terminates
        THEN [Infos |-> WithRoot, Nodes |-> Removed, Outcome |-> "EndlessFilterLoop"]
        ELSE IF Created.bOverflow
        THEN [Infos |-> Linked, Nodes |-> Created.Nodes, Outcome |-> "StackOverflow"]
        ELSE [Infos |-> Linked, Nodes |-> Created.Nodes, Outcome |-> "Built"]

---------------------------------------------------------------------------
(* State after SRefExplorer::Construct *)

EmptyInfos == [ k \in {} |-> FRefExplorerNodeInfo(k) ]

\* what the last step did: the handler that ran, the root it asked a graph
\* for, how often it ran UEdGraph_RefExplorer::RebuildGraph, whether the
\* results were dirty when it started, whether it found a graph of another
\* root in place, the requests deferred during the current or the last scan
\* and the broadcasts of OnFilesLoaded that reached the widget (both counted
\* up to 2)
Observe(Handler, Requested, Rebuilds) ==
    [Handler |-> Handler,
     Rebuilds |-> Rebuilds,
     RequestedRoot |-> Requested,
     bWasDirty |-> bDirtyResults,
     bReplaced |-> Rebuilds > 0 /\ Nodes # << >> /\ Nodes[1].Identifier # Requested,
     Deferred |->
         IF Handler \in {"SetGraphRootIdentifier", "RefreshClicked"} /\ Rebuilds = 0
         THEN IF history.Deferred < 2 THEN history.Deferred + 1 ELSE 2
         ELSE IF Handler = "StartScan" THEN 0 ELSE history.Deferred,
     ContinuationRuns |->
         IF Handler = "OnInitialAssetRegistrySearchComplete" /\ history.ContinuationRuns < 2
         THEN history.ContinuationRuns + 1 ELSE history.ContinuationRuns]

\* no pin category is being converted
NoPins == [pc |-> "Idle", Given |-> << >>, Categories |-> << >>, Names |-> << >>]

\* GetSortedLinks is not at work
NoLinks == [pc |-> "Idle", Returned |-> << >>, LinksToAsset |-> << >>, OutLinks |-> << >>]

Constructed ==
    /\ bIsLoadingAssets \in BOOLEAN
    /\ scans = IF bIsLoadingAssets THEN 1 ELSE 0
    /\ CurrentGraphRootIdentifier = DefaultId
    /\ RefExplorerNodeInfos = EmptyInfos
    /\ Nodes = << >>
    /\ bDirtyResults = FALSE
    /\ AssetRefreshHandle = FALSE
    /\ FilesLoadedBindings = 0
    /\ status = "Running"
    /\ history = [Handler |-> "Construct", Rebuilds |-> 0, RequestedRoot |-> DefaultId,
                  bWasDirty |-> FALSE, bReplaced |-> FALSE, Deferred |-> 0,
                  ContinuationRuns |-> 0]

\* the registries the widget runs over: every package has valid package data
\* and no package depends on itself, so that every build returns
WidgetRegistries ==
    { Reg \in Registries(MaxWidgetDeps) :
        /\ \A p \in Packages : Reg.PackageData[p] = "Valid"
        /\ \A d \in Reg.Dependencies : d.Referencer # d.Referenced }

Init ==
    /\ registry \in WidgetRegistries
    /\ Constructed
    /\ links = NoLinks
    /\ pins = NoPins

InitGraph ==
    /\ registry \in Registries(MaxDeps)
    /\ Constructed
    /\ links = NoLinks
    /\ pins = NoPins
    /\ bIsLoadingAssets = FALSE

---------------------------------------------------------------------------
(* The operations of the graph and of the widget *)

\* variant: the root is not stored
SetGraphRootIgnored(GraphRootIdentifier) == UNCHANGED CurrentGraphRootIdentifier

\* UEdGraph_RefExplorer::SetGraphRoot
SetGraphRoot(GraphRootIdentifier) == CurrentGraphRootIdentifier' = GraphRootIdentifier

\* GraphObj->RebuildGraph(), run for the root the handler leaves
GraphRebuildGraph ==
    \E Result \in {RebuildGraph(registry, CurrentGraphRootIdentifier', RefExplorerNodeInfos, Nodes)} :
        /\ RefExplorerNodeInfos' = Result.Infos
        /\ Nodes' = Result.Nodes
        /\ status' = IF Result.Outcome = "Built" THEN "Running" ELSE Result.Outcome

\* variant: the continuation is bound without asking IsBoundToObject
WidgetRebuildGraphRebinding ==
    IF bIsLoadingAssets
    THEN /\ FilesLoadedBindings' = FilesLoadedBindings + 1
         /\ UNCHANGED << RefExplorerNodeInfos, Nodes, status, bDirtyResults, AssetRefreshHandle >>
    ELSE /\ GraphRebuildGraph
         /\ IF status' = "Running"
            THEN bDirtyResults' = FALSE /\ AssetRefreshHandle' = TRUE
            ELSE UNCHANGED << bDirtyResults, AssetRefreshHandle >>
         /\ UNCHANGED FilesLoadedBindings

\* variant: bDirtyResults is not cleared after the build
WidgetRebuildGraphKeepsDirty ==
    IF bIsLoadingAssets
    THEN /\ FilesLoadedBindings' = IF FilesLoadedBindings = 0 THEN 1 ELSE FilesLoadedBindings
         /\ UNCHANGED << RefExplorerNodeInfos, Nodes, status, bDirtyResults, AssetRefreshHandle >>
    ELSE /\ GraphRebuildGraph
         /\ IF status' = "Running"
            THEN AssetRefreshHandle' = TRUE
            ELSE UNCHANGED AssetRefreshHandle
         /\ UNCHANGED << bDirtyResults, FilesLoadedBindings >>

\* SRefExplorer::RebuildGraph
WidgetRebuildGraph ==
    IF bIsLoadingAssets
    THEN /\ FilesLoadedBindings' = IF FilesLoadedBindings = 0 THEN 1 ELSE FilesLoadedBindings
         /\ UNCHANGED << RefExplorerNodeInfos, Nodes, status, bDirtyResults, AssetRefreshHandle >>
    ELSE /\ GraphRebuildGraph
         /\ IF status' = "Running"
            THEN bDirtyResults' = FALSE /\ AssetRefreshHandle' = TRUE
            ELSE UNCHANGED << bDirtyResults, AssetRefreshHandle >>
         /\ UNCHANGED FilesLoadedBindings

\* SRefExplorer::SetGraphRootIdentifier, called for the asset picked in the content browser
SetGraphRootIdentifier(NewGraphRootIdentifier) ==
    /\ status = "Running"
    /\ SetGraphRoot(NewGraphRootIdentifier)
    /\ WidgetRebuildGraph
    /\ history' = Observe("SetGraphRootIdentifier", NewGraphRootIdentifier, IF bIsLoadingAssets THEN 0 ELSE 1)
    /\ UNCHANGED << links, pins, registry, bIsLoadingAssets, scans >>

\* SRefExplorer::OnNodeDoubleClicked on the node Nodes[Node]
OnNodeDoubleClicked(Node) ==
    /\ status = "Running"
    /\ SetGraphRoot(Nodes[Node].Identifier)
    /\ GraphRebuildGraph
    /\ history' = Observe("OnNodeDoubleClicked", Nodes[Node].Identifier, 1)
    /\ UNCHANGED << links, pins, registry, bIsLoadingAssets, scans, bDirtyResults, AssetRefreshHandle,
                    FilesLoadedBindings >>

\* SRefExplorer::RefreshClicked
RefreshClicked ==
    /\ status = "Running"
    /\ UNCHANGED CurrentGraphRootIdentifier
    /\ WidgetRebuildGraph
    /\ history' = Observe("RefreshClicked", CurrentGraphRootIdentifier, IF bIsLoadingAssets THEN 0 ELSE 1)
    /\ UNCHANGED << links, pins, registry, bIsLoadingAssets, scans >>

\* SRefExplorer::OnFindPathAssetSelected; the picker allows the null selection,
\* whose package name is NAME_None
OnFindPathAssetSelected(PackageName) ==
    /\ status = "Running"
    /\ SetGraphRoot(PackageId(PackageName))
    /\ GraphRebuildGraph
    /\ history' = Observe("OnFindPathAssetSelected", PackageId(PackageName), 1)
    /\ UNCHANGED << links, pins, registry, bIsLoadingAssets, scans, bDirtyResults, AssetRefreshHandle,
                    FilesLoadedBindings >>

\* SRefExplorer::OnFindPathAssetEnterPressed with the package names of AssetData
OnFindPathAssetEnterPressed(AssetData) ==
    /\ status = "Running"
    /\ IF AssetData # << >>
       THEN /\ SetGraphRoot(PackageId(AssetData[1]))
            /\ GraphRebuildGraph
       ELSE UNCHANGED << CurrentGraphRootIdentifier, RefExplorerNodeInfos, Nodes, status >>
    /\ history' = Observe("OnFindPathAssetEnterPressed",
                        IF AssetData # << >> THEN PackageId(AssetData[1]) ELSE history.RequestedRoot,
                        IF AssetData # << >> THEN 1 ELSE 0)
    /\ UNCHANGED << links, pins, registry, bIsLoadingAssets, scans, bDirtyResults, AssetRefreshHandle,
                    FilesLoadedBindings >>

\* variant: the handler rebuilds the graph as well
OnAssetRegistryChangedRebuilding ==
    /\ bDirtyResults' = TRUE
    /\ UNCHANGED CurrentGraphRootIdentifier
    /\ GraphRebuildGraph
    /\ history' = Observe("OnAssetRegistryChanged", history.RequestedRoot, 1)

\* SRefExplorer::OnAssetRegistryChanged
OnAssetRegistryChanged ==
    /\ bDirtyResults' = TRUE
    /\ history' = Observe("OnAssetRegistryChanged", history.RequestedRoot, 0)
    /\ UNCHANGED << CurrentGraphRootIdentifier, RefExplorerNodeInfos, Nodes, status >>

\* the registry broadcasts OnAssetAdded, OnAssetUpdated or OnAssetRemoved; the
\* widget listens to the three of them once AssetRefreshHandle is valid
AssetRegistryChanged(Event) ==
    /\ status = "Running"
    /\ IF AssetRefreshHandle
       THEN OnAssetRegistryChanged
       ELSE /\ history' = Observe(Event, history.RequestedRoot, 0)
            /\ UNCHANGED << bDirtyResults, CurrentGraphRootIdentifier, RefExplorerNodeInfos,
                            Nodes, status >>
    /\ UNCHANGED << links, pins, registry, bIsLoadingAssets, scans, AssetRefreshHandle, FilesLoadedBindings >>

\* the registry starts a scan (at start-up, or later for a newly mounted path)
StartScan ==
    /\ status = "Running"
    /\ ~bIsLoadingAssets
    /\ scans < MaxScans
    /\ bIsLoadingAssets' = TRUE
    /\ scans' = scans + 1
    /\ history' = Observe("StartScan", history.RequestedRoot, 0)
    /\ UNCHANGED << links, pins, registry, CurrentGraphRootIdentifier, RefExplorerNodeInfos, Nodes,
                    bDirtyResults, AssetRefreshHandle, FilesLoadedBindings, status >>

\* SRefExplorer::OnInitialAssetRegistrySearchComplete, once for every entry
\* of OnFilesLoaded() bound to the widget; nothing is unbound
OnInitialAssetRegistrySearchComplete ==
    /\ UNCHANGED << CurrentGraphRootIdentifier, FilesLoadedBindings >>
    /\ GraphRebuildGraph
    /\ history' = Observe("OnInitialAssetRegistrySearchComplete", history.RequestedRoot,
                        FilesLoadedBindings)

\* the registry ends its scan and broadcasts OnFilesLoaded
FilesLoaded ==
    /\ status = "Running"
    /\ bIsLoadingAssets
    /\ bIsLoadingAssets' = FALSE
    /\ IF FilesLoadedBindings > 0
       THEN OnInitialAssetRegistrySearchComplete
       ELSE /\ history' = Observe("OnFilesLoaded", history.RequestedRoot, 0)
            /\ UNCHANGED << CurrentGraphRootIdentifier, RefExplorerNodeInfos, Nodes, status,
                            FilesLoadedBindings >>
    /\ UNCHANGED << links, pins, registry, scans, bDirtyResults, AssetRefreshHandle >>

Next ==
    \/ \E Id \in PackageIds : SetGraphRootIdentifier(Id)
    \/ \E Node \in 1..Len(Nodes) : OnNodeDoubleClicked(Node)
    \/ RefreshClicked
    \/ \E PackageName \in Packages \cup {NAME_None} : OnFindPathAssetSelected(PackageName)
    \/ \E AssetData \in {<< >>} \cup { << p >> : p \in Packages } :
           OnFindPathAssetEnterPressed(AssetData)
    \/ \E Event \in {"OnAssetAdded", "OnAssetUpdated", "OnAssetRemoved"} :
           AssetRegistryChanged(Event)
    \/ StartScan
    \/ FilesLoaded

Spec == Init /\ [][Next]_vars

\* the graph object alone: SetGraphRoot followed by RebuildGraph, for any root
SetGraphRootAndRebuild(GraphRootIdentifier) ==
    /\ status = "Running"
    /\ SetGraphRoot(GraphRootIdentifier)
    /\ GraphRebuildGraph
    /\ history' = Observe("RebuildGraph", GraphRootIdentifier, 1)
    /\ UNCHANGED << links, pins, registry, bIsLoadingAssets, scans, bDirtyResults, AssetRefreshHandle,
                    FilesLoadedBindings >>

NextGraph == \E Id \in AssetIds : SetGraphRootAndRebuild(Id)

SpecGraph == InitGraph /\ [][NextGraph]_vars

---------------------------------------------------------------------------
(* The sort and the classification loop of GetSortedLinks as functions of  *)
(* the records handed to them                                              *)

\* the packages the records come from
LinkSources == { PackageNames[2], PackageNames[3] }

\* FAssetDependency records: a category, known to CategoryOrder or not
\* ("None"), and the properties that go with it
RawRecords ==
    { [AssetId |-> PackageId(p), Category |-> "Package", Properties |-> ps] :
        p \in LinkSources, ps \in SUBSET {"Hard", "Game"} }
    \cup
    { [AssetId |-> PackageId(p), Category |-> "Manage", Properties |-> ps] :
        p \in LinkSources, ps \in {{}, {"Direct"}} }
    \cup
    { [AssetId |-> PackageId(p), Category |-> c, Properties |-> {}] :
        p \in LinkSources, c \in {"SearchableName", "None"} }

SeqsUpTo(S, n) == UNION { [1..k -> S] : k \in 0..n }

\* a registry without content
EmptyRegistry ==
    [Dependencies |-> {}, PackageData |-> [ p \in Packages |-> "Valid" ], Redirectors |-> {}]

\* LinksToAsset as some call of GetReferencers left it
InitLinks ==
    /\ registry = EmptyRegistry
    /\ Constructed
    /\ bIsLoadingAssets = FALSE
    /\ pins = NoPins
    /\ \E Returned \in SeqsUpTo(RawRecords, MaxLinks) :
           links = [pc |-> "Returned", Returned |-> Returned, LinksToAsset |-> Returned,
                    OutLinks |-> << >>]

\* Algo::Sort(LinksToAsset, ...)
SortLinksToAsset ==
    /\ links.pc = "Returned"
    /\ links' = IF SortFailsCheck(links.LinksToAsset)
                THEN [links EXCEPT !.pc = "CheckFailed"]
                ELSE [links EXCEPT !.pc = "Sorted", !.LinksToAsset = SortLinks(@)]
    /\ UNCHANGED << pins, registry, bIsLoadingAssets, CurrentGraphRootIdentifier,
                    RefExplorerNodeInfos, Nodes, bDirtyResults, AssetRefreshHandle,
                    FilesLoadedBindings, status, scans, history >>

\* the loop over the sorted records that fills OutLinks
ClassifySortedLinks ==
    /\ links.pc = "Sorted"
    /\ links' = [links EXCEPT !.pc = "Classified", !.OutLinks = ClassifyLinks(links.LinksToAsset)]
    /\ UNCHANGED << pins, registry, bIsLoadingAssets, CurrentGraphRootIdentifier,
                    RefExplorerNodeInfos, Nodes, bDirtyResults, AssetRefreshHandle,
                    FilesLoadedBindings, status, scans, history >>

NextLinks == SortLinksToAsset \/ ClassifySortedLinks

SpecLinks == InitLinks /\ [][NextLinks]_vars

---------------------------------------------------------------------------
(* GetName and ParseDependencyPinCategory as functions of the categories   *)
(* and names handed to them                                                *)

\* the values of EDependencyPinCategory: any of the three bits
PinCategories == 0..(LinkEndMask + LinkTypeMask)

\* the names a pin can carry: the five names and one that is none of them
PinNames == PinCategoryNames \cup {"Other"}

\* some categories to be named, or some names to be parsed
InitPins ==
    /\ registry = EmptyRegistry
    /\ Constructed
    /\ bIsLoadingAssets = FALSE
    /\ links = NoLinks
    /\ \/ \E Given \in SeqsUpTo(PinCategories, MaxPins) :
              pins = [pc |-> "Categories", Given |-> Given, Categories |-> Given, Names |-> << >>]
       \/ \E Given \in SeqsUpTo(PinNames, MaxPins) :
              pins = [pc |-> "Names", Given |-> Given, Categories |-> << >>, Names |-> Given]

\* GetName for each of the categories
NamePins ==
    /\ pins.pc \in {"Categories", "NamesParsed"}
    /\ pins' = [pins EXCEPT
                   !.pc = IF pins.pc = "Categories" THEN "CategoriesNamed" ELSE "NamesNamedBack",
                   !.Names = [ i \in 1..Len(pins.Categories) |-> GetName(pins.Categories[i]) ]]
    /\ UNCHANGED << links, registry, bIsLoadingAssets, CurrentGraphRootIdentifier,
                    RefExplorerNodeInfos, Nodes, bDirtyResults, AssetRefreshHandle,
                    FilesLoadedBindings, status, scans, history >>

\* ParseDependencyPinCategory for each of the names
ParsePins ==
    /\ pins.pc \in {"Names", "CategoriesNamed"}
    /\ pins' = [pins EXCEPT
                   !.pc = IF pins.pc = "Names" THEN "NamesParsed" ELSE "CategoriesParsedBack",
                   !.Categories = [ i \in 1..Len(pins.Names) |->
                                      ParseDependencyPinCategory(pins.Names[i]) ]]
    /\ UNCHANGED << links, registry, bIsLoadingAssets, CurrentGraphRootIdentifier,
                    RefExplorerNodeInfos, Nodes, bDirtyResults, AssetRefreshHandle,
                    FilesLoadedBindings, status, scans, history >>

NextPins == NamePins \/ ParsePins

SpecPins == InitPins /\ [][NextPins]_vars

---------------------------------------------------------------------------
(* Properties of the graph a build leaves *)

\* UEdGraph_RefExplorer::GetGraphRootNodeInfo
GetGraphRootNodeInfo == RefExplorerNodeInfos[CurrentGraphRootIdentifier]

\* the identifiers the children of a node info name
ChildKeys(Info) == { Info.Children[i].Key : i \in 1..Len(Info.Children) }

\* the edges from the root to Target among the children of the root
RootEdgesTo(Target) ==
    { i \in 1..Len(GetGraphRootNodeInfo.Children) : GetGraphRootNodeInfo.Children[i].Key = Target }

\* the records with which the registry reports Target as a referencer of the root
Reports(Target) ==
    { d \in registry.Dependencies :
        /\ d.Referenced = CurrentGraphRootIdentifier
        /\ d.Referencer = Target
        /\ d.Category \in DependencyCategories }

\* the identifier has no package name, or its package has valid package data
Resolvable(AssetId) ==
    AssetId.PackageName = NAME_None \/ registry.PackageData[AssetId.PackageName] = "Valid"

\* the last step ran UEdGraph_RefExplorer::RebuildGraph and the call returned
BuildReturned == history.Rebuilds > 0 /\ status = "Running"

\* the table and the nodes are those of one build for the current root: the
\* root and the resolvable referencers the registry reports for it, one node each
FreshGraphOfRoot ==
    LET Expected == {CurrentGraphRootIdentifier}
                    \cup { T \in AssetIds : Reports(T) # {} /\ Resolvable(T) }
    IN  /\ DOMAIN RefExplorerNodeInfos = Expected
        /\ ChildKeys(GetGraphRootNodeInfo) = Expected \ {CurrentGraphRootIdentifier}
        /\ { Nodes[i].Identifier : i \in 1..Len(Nodes) } = Expected
        /\ Len(Nodes) = Cardinality(Expected)
        /\ Nodes[1].Identifier = CurrentGraphRootIdentifier

\* C1 as stated: after a build that returned, every target the registry
\* reports more than once for the root is in the table and is the key of
\* exactly one child edge of the root.
DedupOfEveryTarget ==
    BuildReturned =>
        \A T \in AssetIds :
            Cardinality(Reports(T)) > 1 =>
                T \in DOMAIN RefExplorerNodeInfos /\ Cardinality(RootEdgesTo(T)) = 1

\* C1 amended: after a build that returned, a target the registry reports more
\* than once for the root is the key of at most one child edge of the root; if
\* it has no package name or its package data is valid, it is in the table and
\* is the key of exactly one child edge; otherwise it has no child edge.
DedupOfResolvableTargets ==
    BuildReturned =>
        \A T \in AssetIds :
            Cardinality(Reports(T)) > 1 =>
                /\ Cardinality(RootEdgesTo(T)) <= 1
                /\ Resolvable(T) =>
                       T \in DOMAIN RefExplorerNodeInfos /\ Cardinality(RootEdgesTo(T)) = 1
                /\ ~Resolvable(T) => RootEdgesTo(T) = {}

DedupWitness ==
    /\ BuildReturned
    /\ \E T \in AssetIds :
           /\ Cardinality(Reports(T)) > 1
           /\ Resolvable(T)
           /\ Cardinality(RootEdgesTo(T)) = 1

\* C2: after a build that returned, the table holds exactly the root and the
\* resolvable referencers reported for the root, and the nodes are exactly
\* one node for each entry of the table, whatever the table and the nodes
\* held before the build.
RebuildDiscardsState == BuildReturned => FreshGraphOfRoot

RebuildDiscardsStateWitness ==
    /\ BuildReturned
    /\ history.bReplaced
    /\ Cardinality(DOMAIN RefExplorerNodeInfos) >= 2
    /\ FreshGraphOfRoot

\* C11: after a build that returned, every child of the root that has a
\* package name has valid package data (present, size not negative); a
\* package whose data is missing or has a negative size is not among the
\* children of the root.
UnresolvableTargetsFiltered ==
    BuildReturned =>
        /\ \A i \in 1..Len(GetGraphRootNodeInfo.Children) :
               LET Key == GetGraphRootNodeInfo.Children[i].Key
               IN  Key.PackageName # NAME_None => registry.PackageData[Key.PackageName] = "Valid"
        /\ \A T \in PackageIds :
               registry.PackageData[T.PackageName] \in {"Unset", "Negative"}
                   => T \notin ChildKeys(GetGraphRootNodeInfo)

UnresolvableTargetsWitness ==
    /\ BuildReturned
    /\ \E T \in PackageIds : Reports(T) # {} /\ registry.PackageData[T.PackageName] = "Negative"
    /\ \E T \in PackageIds : Reports(T) # {} /\ registry.PackageData[T.PackageName] = "Unset"
    /\ Len(GetGraphRootNodeInfo.Children) = 1

---------------------------------------------------------------------------
(* Properties of the widget *)

RebuildTriggers ==
    {"SetGraphRootIdentifier", "OnNodeDoubleClicked", "OnFindPathAssetSelected",
     "OnFindPathAssetEnterPressed", "RefreshClicked"}

AssetEvents == {"OnAssetAdded", "OnAssetUpdated", "OnAssetRemoved"}

\* C3 as stated: a step of any handler that asks for a rebuild, taken while
\* the registry is loading, does not run UEdGraph_RefExplorer::RebuildGraph
\* and leaves the table and the nodes as they were.
DeferralWhileLoading ==
    [][ (bIsLoadingAssets /\ history'.Handler \in RebuildTriggers)
        => (history'.Rebuilds = 0 /\ UNCHANGED << RefExplorerNodeInfos, Nodes >>) ]_vars

\* C4: the widget is bound to OnFilesLoaded at most once, however many
\* rebuilds were deferred, and a broadcast of OnFilesLoaded that reaches the
\* widget runs the build exactly once.
SingleContinuation ==
    /\ FilesLoadedBindings <= 1
    /\ history.Handler = "OnInitialAssetRegistrySearchComplete" => history.Rebuilds = 1

SingleContinuationWitness ==
    /\ history.Handler = "OnInitialAssetRegistrySearchComplete"
    /\ history.Deferred = 2
    /\ history.Rebuilds = 1
    /\ FilesLoadedBindings = 1

\* C5 as stated: once a broadcast of OnFilesLoaded has run the deferred
\* build, no later broadcast runs a build.
ContinuationIsOneShot ==
    ~( /\ history.Handler = "OnInitialAssetRegistrySearchComplete"
       /\ history.ContinuationRuns > 1
       /\ history.Rebuilds > 0 )

NotificationOnlyMarksDirty ==
    [][ history'.Handler = "OnAssetRegistryChanged"
        => /\ bDirtyResults'
           /\ history'.Rebuilds = 0
           /\ UNCHANGED << CurrentGraphRootIdentifier, RefExplorerNodeInfos, Nodes,
                           AssetRefreshHandle, FilesLoadedBindings >> ]_vars

NotificationWitness ==
    /\ history.Handler = "OnAssetRegistryChanged"
    /\ ~history.bWasDirty
    /\ bDirtyResults
    /\ Len(Nodes) > 1

\* C8 as stated: once a graph has been built, by whichever path, an asset
\* added, updated or removed in the registry leaves bDirtyResults set.
NotificationAfterAnyBuild ==
    (history.Handler \in AssetEvents \cup {"OnAssetRegistryChanged"} /\ Nodes # << >>)
        => bDirtyResults

\* C9: after RefreshClicked on a registry that is not loading, the build has
\* run once, the table and the nodes are those of a build for the current
\* root, and bDirtyResults is clear.
RefreshRebuildsAndClears ==
    (history.Handler = "RefreshClicked" /\ ~bIsLoadingAssets)
        => /\ history.Rebuilds = 1
           /\ status = "Running"
           /\ FreshGraphOfRoot
           /\ ~bDirtyResults

RefreshWitness ==
    /\ history.Handler = "RefreshClicked"
    /\ ~bIsLoadingAssets
    /\ history.bWasDirty
    /\ ~bDirtyResults
    /\ Len(Nodes) > 1

---------------------------------------------------------------------------
(* Redirectors *)

\* the direct referencers of the root whose package data is bad and whose
\* package holds a redirector
BadRedirectorsOfRoot ==
    { T \in PackageIds :
        /\ Reports(T) # {}
        /\ IsBadPackage(registry, T.PackageName)
        /\ HasRedirector(registry, T.PackageName) }

\* the resolvable referencers of the package of T
SubstitutesOf(T) ==
    LET FoundReferences == GetReferencerIds(registry, T.PackageName)
    IN  { R \in { FoundReferences[i] : i \in 1..Len(FoundReferences) } : Resolvable(R) }

\* C10 as stated: after a build that returned, the children of the root do
\* not name a bad redirector that refers to the root, and name every
\* resolvable referencer of that redirector.
RedirectorSubstitution ==
    BuildReturned =>
        \A T \in BadRedirectorsOfRoot :
            /\ T \notin ChildKeys(GetGraphRootNodeInfo)
            /\ SubstitutesOf(T) \subseteq ChildKeys(GetGraphRootNodeInfo)

---------------------------------------------------------------------------
(* Properties of the sort and of the classification loop *)

\* the records among Links that name Target
RecordsOf(Links, Target) == { i \in 1..Len(Links) : Links[i].AssetId = Target }

\* the identifiers Links names
TargetsOf(Links) == { Links[i].AssetId : i \in 1..Len(Links) }

\* the map OutLinks as a set of pairs
PairsOf(OutLinks) == { OutLinks[i] : i \in 1..Len(OutLinks) }

\* the category the records of Target among Links add up to: the active end,
\* the hard type if a record is hard or direct, the used-in-game type if a
\* record is not of category Package or carries the Game flag
MergedCategory(Links, Target) ==
    LinkEndActive
    + (IF \E i \in RecordsOf(Links, Target) :
             "Hard" \in Links[i].Properties \/ "Direct" \in Links[i].Properties
       THEN LinkTypeHard ELSE 0)
    + (IF \E i \in RecordsOf(Links, Target) :
             Links[i].Category # "Package" \/ "Game" \in Links[i].Properties
       THEN LinkTypeUsedInGame ELSE 0)

\* C12: once the loop has classified the records, OutLinks has exactly one
\* entry for every target the records name and none else, and the category of
\* a target is the active end OR-ed with the hard type when some record of the
\* target is hard or direct and with the used-in-game type when some record
\* of the target is not of category Package or carries the Game flag.
ClassifierResult ==
    links.pc = "Classified" =>
        /\ { links.OutLinks[i].Key : i \in 1..Len(links.OutLinks) } = TargetsOf(links.Returned)
        /\ \A i, j \in 1..Len(links.OutLinks) :
               links.OutLinks[i].Key = links.OutLinks[j].Key => i = j
        /\ \A i \in 1..Len(links.OutLinks) :
               links.OutLinks[i].Value = MergedCategory(links.Returned, links.OutLinks[i].Key)

ClassifierResultWitness ==
    /\ links.pc = "Classified"
    /\ \E i \in 1..Len(links.OutLinks) :
           /\ links.OutLinks[i].Value = LinkEndActive + LinkTypeHard + LinkTypeUsedInGame
           /\ \A r \in RecordsOf(links.Returned, links.OutLinks[i].Key) :
                  ~(IsHard(links.Returned[r].Properties)
                    /\ "Game" \in links.Returned[r].Properties)
           /\ \A r \in RecordsOf(links.Returned, links.OutLinks[i].Key) :
                  links.Returned[r].Category = "Package"

\* the orders in which n records can be returned
Orders(n) == { f \in [1..n -> 1..n] : \A i, j \in 1..n : f[i] = f[j] => i = j }

Reordered(Links, f) == [ i \in 1..Len(Links) |-> Links[f[i]] ]

\* C13: the categories the loop has merged for the returned records are the
\* categories it merges for the same records in any other order, sorted first
\* or not, and for the same records with one of them repeated.
MergeIsOrderIndependent ==
    links.pc = "Classified" =>
        /\ \A f \in Orders(Len(links.Returned)) :
               /\ PairsOf(ClassifyLinks(Reordered(links.Returned, f))) = PairsOf(links.OutLinks)
               /\ PairsOf(ClassifyLinks(SortLinks(Reordered(links.Returned, f))))
                      = PairsOf(links.OutLinks)
        /\ \A i \in 1..Len(links.Returned) :
               PairsOf(ClassifyLinks(Append(links.Returned, links.Returned[i])))
                   = PairsOf(links.OutLinks)

MergeWitness ==
    /\ links.pc = "Classified"
    /\ Len(links.Returned) = 3
    /\ Len(links.OutLinks) = 1
    /\ links.Returned[1].Properties = {}
    /\ links.Returned[1].Category = "Package"
    /\ links.OutLinks[1].Value = LinkEndActive + LinkTypeHard + LinkTypeUsedInGame

\* the place of a record in the order: category first (Package, Manage,
\* SearchableName), then hard or direct before the rest, then the package name
CategoryPlace(Record) ==
    CASE Record.Category = "Package" -> 1
      [] Record.Category = "Manage" -> 2
      [] Record.Category = "SearchableName" -> 3
      [] OTHER -> 4

HardPlace(Record) ==
    IF "Hard" \in Record.Properties \/ "Direct" \in Record.Properties THEN 1 ELSE 2

SortsAfter(A, B) ==
    \/ CategoryPlace(A) > CategoryPlace(B)
    \/ CategoryPlace(A) = CategoryPlace(B) /\ HardPlace(A) > HardPlace(B)
    \/ /\ CategoryPlace(A) = CategoryPlace(B)
       /\ HardPlace(A) = HardPlace(B)
       /\ LexicalRank(A.AssetId.PackageName) > LexicalRank(B.AssetId.PackageName)

\* C14: the sorted array holds the returned records, each as often as it was
\* returned, and no record in it sorts after a later one: Package before
\* Manage before SearchableName, within a category hard or direct records
\* first, then by ascending package name.
SortOrder ==
    links.pc \in {"Sorted", "Classified"} =>
        /\ Len(links.LinksToAsset) = Len(links.Returned)
        /\ \A r \in RawRecords :
               Cardinality({ i \in 1..Len(links.LinksToAsset) : links.LinksToAsset[i] = r })
                   = Cardinality({ i \in 1..Len(links.Returned) : links.Returned[i] = r })
        /\ \A i, j \in 1..Len(links.LinksToAsset) :
               i < j => ~SortsAfter(links.LinksToAsset[i], links.LinksToAsset[j])

SortOrderWitness ==
    /\ links.pc = "Sorted"
    /\ Len(links.Returned) = 3
    /\ links.Returned[1].Category = "SearchableName"
    /\ links.Returned[2].Category = "Manage" /\ IsHard(links.Returned[2].Properties)
    /\ links.Returned[3].Category = "Package" /\ ~IsHard(links.Returned[3].Properties)
    /\ links.LinksToAsset = << links.Returned[3], links.Returned[2], links.Returned[1] >>

\* C18 as stated: when a returned record has a category CategoryOrder has no
\* case for, the sort ends in check(false) and no record is classified.
MalformedCategoryFailsCheck ==
    (\E i \in 1..Len(links.Returned) : links.Returned[i].Category \notin KnownCategories)
        => links.pc \in {"Returned", "CheckFailed"}

---------------------------------------------------------------------------
(* Order of the children of the root *)

\* the records GetReferencers returns for the root that name Target
LinksOf(Target) ==
    { [AssetId |-> d.Referencer, Category |-> d.Category, Properties |-> d.Properties] :
        d \in Reports(Target) }

\* the record of Target that the sort puts first
FirstRecord(Target) ==
    CHOOSE r \in LinksOf(Target) : \A s \in LinksOf(Target) : ~SortsAfter(r, s)

\* C15: after a build that returned, every child of the root is reported by
\* the registry, and of two children the first record of the one that stands
\* earlier in the children list does not sort after the first record of the
\* later one, also when the filter removed reported targets.
ChildrenKeepSortedOrder ==
    BuildReturned =>
        LET Children == GetGraphRootNodeInfo.Children
        IN  /\ \A i \in 1..Len(Children) : Reports(Children[i].Key) # {}
            /\ \A i, j \in 1..Len(Children) :
                   i < j => ~SortsAfter(FirstRecord(Children[i].Key), FirstRecord(Children[j].Key))

\* two children in an order that is not the order of their names, and a
\* reported target the filter removed
ChildrenOrderWitness ==
    /\ BuildReturned
    /\ Len(GetGraphRootNodeInfo.Children) = 2
    /\ SortsAfter(FirstRecord(GetGraphRootNodeInfo.Children[2].Key),
                  FirstRecord(GetGraphRootNodeInfo.Children[1].Key))
    /\ LexicalLess(GetGraphRootNodeInfo.Children[2].Key.PackageName,
                   GetGraphRootNodeInfo.Children[1].Key.PackageName)
    /\ \E T \in PackageIds : Reports(T) # {} /\ T \notin ChildKeys(GetGraphRootNodeInfo)

---------------------------------------------------------------------------
(* Referencers by searchable name *)

\* Target refers to the root, and only through records of category
\* SearchableName without the Hard, Direct or Game flag
OnlyBySearchableName(Target) ==
    LET Records == { d \in registry.Dependencies :
                       d.Referenced = CurrentGraphRootIdentifier /\ d.Referencer = Target }
    IN  /\ Records # {}
        /\ \A d \in Records :
               d.Category = "SearchableName" /\ d.Properties \cap {"Hard", "Direct", "Game"} = {}

---------------------------------------------------------------------------
(* The root node and the places of the nodes *)

\* C17 as stated: a build for any root completes and leaves a root node that
\* carries the root identifier and stands at the origin of the graph, and an
\* entry for the root in the table.
BuildOfAnyRootCompletes ==
    history.Rebuilds > 0 =>
        /\ status = "Running"
        /\ Nodes # << >>
        /\ Nodes[1].Identifier = CurrentGraphRootIdentifier
        /\ Nodes[1].NodePosX = CurrentGraphRootOrigin.X
        /\ Nodes[1].NodePosY = CurrentGraphRootOrigin.Y
        /\ CurrentGraphRootIdentifier \in DOMAIN RefExplorerNodeInfos

\* the place on the circle of the child ChildIdx (counted from 1) of Num
\* children: both coordinates from Radius and the angle of the child
RadialLoc(InNodeLoc, ChildIdx, Num) ==
    LET Angle == (ChildIdx - 1) * DeltaAngle(Num) + (UE_PI - LastAngle(Num) \div 2)
    IN  [X |-> TruncToInt(InNodeLoc.X, -(Radius(Num) * Cos(Angle))),
         Y |-> TruncToInt(InNodeLoc.Y, Radius(Num) * Sin(Angle))]

\* the node created for the child ChildIdx of the root
ChildNodeOfRoot(ChildIdx) == Nodes[ChildIdx + 1]

\* C19 as stated: after a build that returned, every child of the root stands
\* on the circle around the root, at x = rootX + radius * cos(angle) and
\* y = rootY - radius * sin(angle), up to one unit.
RadialLayout ==
    BuildReturned =>
        LET Num == Len(GetGraphRootNodeInfo.Children)
        IN  \A ChildIdx \in 1..Num :
                LET Claimed == RadialLoc(CurrentGraphRootOrigin, ChildIdx, Num)
                IN  /\ Abs(ChildNodeOfRoot(ChildIdx).NodePosX - Claimed.X) <= 1
                    /\ Abs(ChildNodeOfRoot(ChildIdx).NodePosY - Claimed.Y) <= 1

\* C20 as stated: after a build that returned, the only child of a root
\* stands at (rootX - HeightStep / 2, rootY), which is (-200, 0).
SingleChildPlacement ==
    BuildReturned /\ Len(GetGraphRootNodeInfo.Children) = 1 =>
        /\ ChildNodeOfRoot(1).NodePosX = CurrentGraphRootOrigin.X - HeightStep \div 2
        /\ ChildNodeOfRoot(1).NodePosY = CurrentGraphRootOrigin.Y

---------------------------------------------------------------------------
(* Shape of the table and of the nodes *)

\* the places of Child in the children list of the entry of Parent
EdgesFromTo(Parent, Child) ==
    { i \in 1..Len(RefExplorerNodeInfos[Parent].Children) :
        RefExplorerNodeInfos[Parent].Children[i].Key = Child }

\* C21: in every state, for entries p and c of the table, c is in the
\* children list of p exactly when p is in the parents set of c, and c is in
\* that list at most once.
AdjacencyConsistent ==
    \A p \in DOMAIN RefExplorerNodeInfos, c \in DOMAIN RefExplorerNodeInfos :
        /\ EdgesFromTo(p, c) # {} <=> p \in RefExplorerNodeInfos[c].Parents
        /\ Cardinality(EdgesFromTo(p, c)) <= 1

\* a second build, for a root with two children of which one is reported
\* by two records
AdjacencyWitness ==
    /\ BuildReturned
    /\ history.bReplaced
    /\ Len(GetGraphRootNodeInfo.Children) = 2
    /\ \E T \in AssetIds : Cardinality(Reports(T)) = 2 /\ Cardinality(RootEdgesTo(T)) = 1

\* the node of the root: the first node created by a build
RootNodeIndex == 1

\* C22: after a build that returned, every entry of the table other than the
\* root has no children and the root as its only parent, and every node
\* other than the root node is linked to the root node and has no node
\* linked to it.
OneLevelOfExpansion ==
    BuildReturned =>
        /\ \A k \in DOMAIN RefExplorerNodeInfos \ {CurrentGraphRootIdentifier} :
               /\ RefExplorerNodeInfos[k].Children = << >>
               /\ RefExplorerNodeInfos[k].Parents = {CurrentGraphRootIdentifier}
        /\ \A i \in 1..Len(Nodes) :
               i # RootNodeIndex =>
                   /\ Nodes[i].DependencyPinLinkedTo = RootNodeIndex
                   /\ \A j \in 1..Len(Nodes) : Nodes[j].DependencyPinLinkedTo # i

\* two children, one of which has a resolvable referencer of its own that
\* is not in the graph
OneLevelWitness ==
    /\ BuildReturned
    /\ Len(Nodes) = 3
    /\ \E d \in registry.Dependencies :
           /\ d.Category \in DependencyCategories
           /\ d.Referenced \in ChildKeys(GetGraphRootNodeInfo)
           /\ Resolvable(d.Referencer)
           /\ d.Referencer \notin DOMAIN RefExplorerNodeInfos

\* the nodes that carry the identifier
NodesOf(AssetId) == { i \in 1..Len(Nodes) : Nodes[i].Identifier = AssetId }

\* C23: after a build that returned, every entry of the table has exactly
\* one node, every node belongs to an entry of the table, and the one node
\* of the current root is the root node.
OneNodePerNodeInfo ==
    BuildReturned =>
        /\ \A k \in DOMAIN RefExplorerNodeInfos : Cardinality(NodesOf(k)) = 1
        /\ \A i \in 1..Len(Nodes) : Nodes[i].Identifier \in DOMAIN RefExplorerNodeInfos
        /\ NodesOf(CurrentGraphRootIdentifier) = {RootNodeIndex}

\* a build that replaced the graph of another root and left three nodes,
\* with a reported target that got no entry
OneNodeWitness ==
    /\ BuildReturned
    /\ history.bReplaced
    /\ Len(Nodes) = 3
    /\ Cardinality(DOMAIN RefExplorerNodeInfos) = 3
    /\ \E T \in PackageIds : Reports(T) # {} /\ T \notin DOMAIN RefExplorerNodeInfos

---------------------------------------------------------------------------
(* The loop over ReferenceIds *)

\* the packages the loop of the build for the current root asked the
\* registry the referencers of
QueriedByFilter ==
    LET Queried == GetSortedLinks(registry, CurrentGraphRootIdentifier).Queried
    IN  { Queried[i] : i \in 1..Len(Queried) }

\* C24 as stated: after a build that returned, the loop has asked for the
\* referencers of direct referencers of the root only: a referencer that was
\* put in the place of a redirector is not asked about.
SubstitutionOneLevelDeep ==
    BuildReturned =>
        \A PackageName \in QueriedByFilter : Reports(PackageId(PackageName)) # {}

\* C25 as stated: the loop over ReferenceIds of every build comes to its
\* end, whatever the registry holds.
FilterTerminates == history.Rebuilds > 0 => status # "EndlessFilterLoop"

\* C26 as stated: every build returns from RecursivelyCreateNodes, also when
\* the root is among its own referencers.
RebuildTerminates == history.Rebuilds > 0 => status # "StackOverflow"

---------------------------------------------------------------------------
(* The widget after a build *)

\* C27 as stated: every build that returned, whatever handler ran it,
\* leaves bDirtyResults false, so that the flag is set only by a
\* notification that came after the last build.
StaleFlagSound == BuildReturned => ~bDirtyResults

\* C28 as stated: in every state with a node in the graph the current root
\* is a key of the table, so that GetGraphRootNodeInfo finds its entry.
RootInTableWhenNodesShown ==
    Nodes # << >> => CurrentGraphRootIdentifier \in DOMAIN RefExplorerNodeInfos

---------------------------------------------------------------------------
(* Names of the pin categories *)

\* C29: a category with the active end that was named and parsed back is the
\* category it was; a category without the active end is named Passive and
\* parsed back to LinkEndPassive without type bits; one of the five names
\* that was parsed and named back is the name it was.
CategoryNameRoundTrip ==
    /\ pins.pc = "CategoriesParsedBack" =>
           \A i \in 1..Len(pins.Given) :
               IF Bit(pins.Given[i], LinkEndActive) = 1
               THEN pins.Categories[i] = pins.Given[i]
               ELSE pins.Names[i] = "Passive" /\ pins.Categories[i] = LinkEndPassive
    /\ pins.pc = "NamesNamedBack" =>
           \A i \in 1..Len(pins.Given) :
               pins.Given[i] \in PinCategoryNames => pins.Names[i] = pins.Given[i]

\* a passive category with both type bits and the active category with
\* both type bits, named and parsed back
CategoryNameWitness ==
    /\ pins.pc = "CategoriesParsedBack"
    /\ pins.Given = << LinkTypeHard + LinkTypeUsedInGame,
                       LinkEndActive + LinkTypeHard + LinkTypeUsedInGame >>
    /\ pins.Names = << "Passive", "Hard" >>
    /\ pins.Categories = << LinkEndPassive, LinkEndActive + LinkTypeHard + LinkTypeUsedInGame >>

---------------------------------------------------------------------------
(* Pins *)

\* the categories of the child edges of the root that name the identifier
EdgeCategoriesOf(AssetId) ==
    { GetGraphRootNodeInfo.Children[i].Value : i \in RootEdgesTo(AssetId) }

\* C30: after a build that returned, the dependency pin of every node other
\* than the root node is visible, carries a name other than Passive that
\* parses to the category of the child edge, and is linked to the root node,
\* while its referencer pin is hidden; the referencer pin of the root node
\* is hidden exactly when the root has no children, and its dependency pin
\* is hidden, linked to nothing and named Passive.
PinsAfterBuild ==
    BuildReturned =>
        /\ \A i \in 1..Len(Nodes) :
               i # RootNodeIndex =>
                   /\ ~Nodes[i].DependencyPinHidden
                   /\ Nodes[i].DependencyPinCategory \in PinCategoryNames \ {"Passive"}
                   /\ EdgeCategoriesOf(Nodes[i].Identifier)
                          = {ParseDependencyPinCategory(Nodes[i].DependencyPinCategory)}
                   /\ Nodes[i].DependencyPinLinkedTo = RootNodeIndex
                   /\ Nodes[i].ReferencerPinHidden
        /\ Nodes[RootNodeIndex].ReferencerPinHidden <=> GetGraphRootNodeInfo.Children = << >>
        /\ Nodes[RootNodeIndex].DependencyPinHidden
        /\ Nodes[RootNodeIndex].DependencyPinLinkedTo = 0
        /\ Nodes[RootNodeIndex].DependencyPinCategory = "Passive"

\* two children whose pins carry different names
PinsWitness ==
    /\ BuildReturned
    /\ Len(Nodes) = 3
    /\ Nodes[2].DependencyPinCategory = "HardEditorOnly"
    /\ Nodes[3].DependencyPinCategory = "SoftEditorOnly"
    /\ ~Nodes[RootNodeIndex].ReferencerPinHidden

====
